---- MODULE Spec2Model ----
(***************************************************************************)
(* A model of CdrWriter (src/src/CdrWriter.ts): the growable byte buffer,  *)
(* the offset and origin cursors, and every public write operation.        *)
(*                                                                         *)
(* A writer is the record [buffer, offset, origin, threw]: buffer is the   *)
(* ArrayBuffer as a sequence of bytes (JS index i is buffer[i + 1]), threw *)
(* says whether the call ended by throwing.  Every method is an operator   *)
(* from a writer to a writer, composed as the source composes its calls.   *)
(* A call action applies one method to the current state and records the   *)
(* call and the writer before it in `last`; Return hands the writer back   *)
(* to the caller, who may then make the next call.                         *)
(***************************************************************************)
EXTENDS Integers, Sequences, FiniteSets, TLC

VARIABLES
    buffer,            \* #buffer / #array / #view: the bytes, Len(buffer) is the capacity
    offset,            \* #offset
    origin,            \* #origin
    kind,              \* the encapsulation kind byte given at construction
    hostLittleEndian,  \* #hostLittleEndian
    phase,             \* "new": options chosen, constructor not run; "ready"; "failed": constructor threw
    opts,              \* the constructor's options
    last               \* the call in progress: its name, arguments, the writer before it, whether it threw

vars == <<buffer, offset, origin, kind, hostLittleEndian, phase, opts, last>>

----------------------------------------------------------------------------
(* Bounds of the model *)

\* The caller makes further calls only while offset <= MaxStart.
MaxStart == 8
\* Largest options.size / options.buffer byteLength tried by the constructor.
MaxInitSize == 5
\* Byte length of the supplied buffer of the writers whose calls are explored.
InitCapacity == 8

----------------------------------------------------------------------------
(* Program constants *)

DEFAULT_CAPACITY == 16
BUFFER_COPY_THRESHOLD == 10
EXTENDED_PID == 16129      \* 0x3F01
SENTINEL_PID == 16130      \* 0x3F02

\* The value of a private field read before its first assignment (undefined):
\* arithmetic on it gives NaN, and every comparison with NaN is false.
Undefined == -1

MinInt32 == -2147483647 - 1

\* EncapsulationKind
CDR_BE == 0
CDR_LE == 1
PL_CDR_BE == 2
PL_CDR_LE == 3
CDR2_BE == 16
CDR2_LE == 17
PL_CDR2_BE == 18
PL_CDR2_LE == 19
DELIMITED_CDR2_BE == 20
DELIMITED_CDR2_LE == 21

EncapsulationKinds ==
    {CDR_BE, CDR_LE, PL_CDR_BE, PL_CDR_LE, CDR2_BE, CDR2_LE,
     PL_CDR2_BE, PL_CDR2_LE, DELIMITED_CDR2_BE, DELIMITED_CDR2_LE}

\* getEncapsulationKindInfo(kind): isCDR2 and littleEndian
getEncapsulationKindInfo(k) ==
    [isCDR2 |-> k >= 16, littleEndian |-> k % 2 = 1]

isCDR2 == getEncapsulationKindInfo(kind).isCDR2
littleEndian == getEncapsulationKindInfo(kind).littleEndian
eightByteAlignment == IF isCDR2 THEN 4 ELSE 8

\* lengthCodeToObjectSizes
lengthCodeToObjectSizes(lc) ==
    CASE lc = 0 -> 1 [] lc = 1 -> 2 [] lc = 2 -> 4 [] lc = 3 -> 8

\* getLengthCodeForObjectSize
getLengthCodeForObjectSize(objectSize) ==
    CASE objectSize = 1 -> 0
      [] objectSize = 2 -> 1
      [] objectSize = 4 -> 2
      [] objectSize = 8 -> 3
      [] OTHER -> 4

----------------------------------------------------------------------------
(* Bytes and integers *)

Max(a, b) == IF a > b THEN a ELSE b

Zeros(n) == [i \in 1..n |-> 0]

Reverse(s) == [i \in 1..Len(s) |-> s[Len(s) + 1 - i]]

\* The n low bytes of v >= 0, most significant first.
RECURSIVE NatBytesBE(_, _)
NatBytesBE(v, n) ==
    IF n = 0 THEN <<>> ELSE Append(NatBytesBE(v \div 256, n - 1), v % 256)

\* The n-byte two's complement of v, most significant first: what DataView's
\* setInt*/setUint*/setBigInt64/setBigUint64 store (the value modulo 2^(8n)).
IntBytesBE(v, n) ==
    IF v >= 0 THEN NatBytesBE(v, n)
    ELSE [i \in 1..n |-> 255 - NatBytesBE(-(v + 1), n)[i]]

\* Byte order of a DataView store.
Ordered(bytesBE, le) == IF le THEN Reverse(bytesBE) ELSE bytesBE

\* IEEE 754 binary32 / binary64 of the values 1.0 and -2.0 (given as 1 and -2).
Float32BytesBE(v) ==
    CASE v = 1 -> <<63, 128, 0, 0>>
      [] v = -2 -> <<192, 0, 0, 0>>
Float64BytesBE(v) ==
    CASE v = 1 -> <<63, 240, 0, 0, 0, 0, 0, 0>>
      [] v = -2 -> <<192, 0, 0, 0, 0, 0, 0, 0>>

\* a | b and a & b on non-negative numbers
RECURSIVE BitOr(_, _)
BitOr(a, b) ==
    IF a = 0 THEN b
    ELSE IF b = 0 THEN a
    ELSE (IF a % 2 = 1 \/ b % 2 = 1 THEN 1 ELSE 0) + 2 * BitOr(a \div 2, b \div 2)

RECURSIVE BitAnd(_, _)
BitAnd(a, b) ==
    IF a = 0 \/ b = 0 THEN 0
    ELSE (IF a % 2 = 1 /\ b % 2 = 1 THEN 1 ELSE 0) + 2 * BitAnd(a \div 2, b \div 2)

\* a | b on 32-bit signed numbers, as JavaScript computes it
Or32(a, b) ==
    LET la == IF a < 0 THEN a - MinInt32 ELSE a
        lb == IF b < 0 THEN b - MinInt32 ELSE b
    IN  BitOr(la, lb) + (IF a < 0 \/ b < 0 THEN MinInt32 ELSE 0)

\* n << 28 as a 32-bit signed number, for n >= 0
Shl28(n) ==
    LET low == n % 16
    IN  IF low >= 8 THEN (low - 8) * (2 ^ 28) + MinInt32 ELSE low * (2 ^ 28)

\* UTF-8 of one code point (TextEncoder)
Utf8(cp) ==
    IF cp < 128 THEN <<cp>>
    ELSE IF cp < 2048 THEN <<192 + (cp \div 64), 128 + (cp % 64)>>
    ELSE IF cp < 65536 THEN
        <<224 + (cp \div 4096), 128 + ((cp \div 64) % 64), 128 + (cp % 64)>>
    ELSE <<240 + (cp \div 262144), 128 + ((cp \div 4096) % 64),
           128 + ((cp \div 64) % 64), 128 + (cp % 64)>>

\* UTF-8 of a string, given as its sequence of code points
RECURSIVE Utf8Str(_)
Utf8Str(s) == IF s = <<>> THEN <<>> ELSE Utf8(Head(s)) \o Utf8Str(Tail(s))

\* String.prototype.length: the number of UTF-16 code units
RECURSIVE StrLength(_)
StrLength(s) ==
    IF s = <<>> THEN 0
    ELSE (IF Head(s) >= 65536 THEN 2 ELSE 1) + StrLength(Tail(s))

\* TextEncoder.encodeInto(value, dest) with dest of n bytes: the bytes it
\* writes, which are those of the code points that fit whole, in order.
RECURSIVE encodeInto(_, _)
encodeInto(s, n) ==
    IF s = <<>> \/ Len(Utf8(Head(s))) > n THEN <<>>
    ELSE Utf8(Head(s)) \o encodeInto(Tail(s), n - Len(Utf8(Head(s))))

\* buf with bytes stored from JS index at
SetBytes(buf, at, bytes) ==
    [i \in 1..Len(buf) |->
        IF i > at /\ i <= at + Len(bytes) THEN bytes[i - at] ELSE buf[i]]

----------------------------------------------------------------------------
(* The buffer *)

\* #resize allocating the new buffer without array.set(this.#array)
resize_dropsContents(w, capacity) ==
    IF Len(w.buffer) >= capacity THEN w
    ELSE [w EXCEPT !.buffer = Zeros(capacity)]

\* #resize
resize(w, capacity) ==
    IF Len(w.buffer) >= capacity THEN w
    ELSE [w EXCEPT !.buffer = w.buffer \o Zeros(capacity - Len(w.buffer))]

\* #resizeIfNeeded with the needed capacity taken as additionalBytes alone
resizeIfNeeded_forgetsOffset(w, additionalBytes) ==
    IF w.offset = Undefined THEN w
    ELSE LET capacity == additionalBytes
             doubled == Len(w.buffer) * 2
             newCapacity == IF doubled > capacity THEN doubled ELSE capacity
         IN  IF Len(w.buffer) < capacity THEN resize(w, newCapacity) ELSE w

\* #resizeIfNeeded growing to the needed capacity only, never doubling
resizeIfNeeded_noDoubling(w, additionalBytes) ==
    IF w.offset = Undefined THEN w
    ELSE LET capacity == w.offset + additionalBytes
         IN  IF Len(w.buffer) < capacity THEN resize(w, capacity) ELSE w

\* #resizeIfNeeded
resizeIfNeeded(w, additionalBytes) ==
    IF w.offset = Undefined THEN w   \* capacity is NaN, byteLength < NaN is false
    ELSE LET capacity == w.offset + additionalBytes
             doubled == Len(w.buffer) * 2
             newCapacity == IF doubled > capacity THEN doubled ELSE capacity
         IN  IF Len(w.buffer) < capacity THEN resize(w, newCapacity) ELSE w

\* align padding by a whole `size` when the offset is already aligned
align_padsWhenAligned(w, size, bytesToWrite) ==
    LET alignment == (w.offset - w.origin) % size
        padding == size - alignment
        r == resizeIfNeeded(w, padding + bytesToWrite)
    IN  [r EXCEPT !.buffer = SetBytes(r.buffer, r.offset, Zeros(padding)),
                  !.offset = r.offset + padding]

\* align
align(w, size, bytesToWrite) ==
    LET alignment == (w.offset - w.origin) % size
        padding == IF alignment > 0 THEN size - alignment ELSE 0
        r == resizeIfNeeded(w, padding + bytesToWrite)
    IN  [r EXCEPT !.buffer = SetBytes(r.buffer, r.offset, Zeros(padding)),
                  !.offset = r.offset + padding]

\* this.#view.setX(this.#offset, ...); this.#offset += n
put(w, bytes) ==
    [w EXCEPT !.buffer = SetBytes(w.buffer, w.offset, bytes),
              !.offset = w.offset + Len(bytes)]

----------------------------------------------------------------------------
(* Scalars *)

int8(w, value) == put(resizeIfNeeded(w, 1), IntBytesBE(value, 1))

uint8(w, value) == put(resizeIfNeeded(w, 1), IntBytesBE(value, 1))

int16(w, value) == put(align(w, 2, 2), Ordered(IntBytesBE(value, 2), littleEndian))

uint16(w, value) == put(align(w, 2, 2), Ordered(IntBytesBE(value, 2), littleEndian))

int32(w, value) == put(align(w, 4, 4), Ordered(IntBytesBE(value, 4), littleEndian))

uint32(w, value) == put(align(w, 4, 4), Ordered(IntBytesBE(value, 4), littleEndian))

int64(w, value) ==
    put(align(w, eightByteAlignment, 8), Ordered(IntBytesBE(value, 8), littleEndian))

uint64(w, value) ==
    put(align(w, eightByteAlignment, 8), Ordered(IntBytesBE(value, 8), littleEndian))

uint16BE(w, value) == put(align(w, 2, 2), IntBytesBE(value, 2))

uint32BE(w, value) == put(align(w, 4, 4), IntBytesBE(value, 4))

uint64BE(w, value) == put(align(w, eightByteAlignment, 8), IntBytesBE(value, 8))

float32(w, value) == put(align(w, 4, 4), Ordered(Float32BytesBE(value), littleEndian))

float64(w, value) ==
    put(align(w, eightByteAlignment, 8), Ordered(Float64BytesBE(value), littleEndian))

----------------------------------------------------------------------------
(* Strings and headers *)

\* string(value, writeLength): value is the string's sequence of code points
string(w, value, writeLength) ==
    LET strlen == StrLength(value)
        a == IF writeLength THEN uint32(w, strlen + 1) ELSE w
        r == resizeIfNeeded(a, strlen + 1)
        e == SetBytes(r.buffer, r.offset, encodeInto(value, strlen))
    IN  [r EXCEPT !.buffer = SetBytes(e, r.offset + strlen, <<0>>),
                  !.offset = r.offset + strlen + 1]

dHeader(w, objectSize) == uint32(w, objectSize)

sequenceLength(w, value) == uint32(w, value)

\* #resetOrigin
resetOrigin(w) == [w EXCEPT !.origin = w.offset]

\* #memberHeaderV1 taking the extended form from id 0x3F00 on, not above it
memberHeaderV1_idBoundary(w, mustUnderstand, id, objectSize) ==
    LET a == align(w, 4, 4)
        mustUnderstandFlag == IF mustUnderstand THEN 16384 ELSE 0
        shouldUseExtendedPID == id >= 16128 \/ objectSize > 65535
        short ==
            uint16(uint16(a, BitOr(mustUnderstandFlag, id)), BitAnd(objectSize, 65535))
        extended ==
            uint32(uint32(uint16(uint16(a, BitOr(mustUnderstandFlag, EXTENDED_PID)), 8),
                          id), objectSize)
    IN  resetOrigin(IF ~shouldUseExtendedPID THEN short ELSE extended)

\* #memberHeaderV1
memberHeaderV1(w, mustUnderstand, id, objectSize) ==
    LET a == align(w, 4, 4)
        mustUnderstandFlag == IF mustUnderstand THEN 16384 ELSE 0
        shouldUseExtendedPID == id > 16128 \/ objectSize > 65535
        short ==
            uint16(uint16(a, BitOr(mustUnderstandFlag, id)), BitAnd(objectSize, 65535))
        extended ==
            uint32(uint32(uint16(uint16(a, BitOr(mustUnderstandFlag, EXTENDED_PID)), 8),
                          id), objectSize)
    IN  resetOrigin(IF ~shouldUseExtendedPID THEN short ELSE extended)

\* #memberHeaderV2; lengthCode is <<lc>>, or NoLengthCode when the argument is
\* not given
NoLengthCode == <<>>

\* #memberHeaderV2 writing the size unscaled for length code 6
memberHeaderV2_lc6Unscaled(w, mustUnderstand, id, objectSize, lengthCode) ==
    IF id > 268435455 THEN [w EXCEPT !.threw = TRUE]
    ELSE
    LET mustUnderstandFlag == IF mustUnderstand THEN MinInt32 ELSE 0
        finalLengthCode ==
            IF lengthCode = NoLengthCode THEN getLengthCodeForObjectSize(objectSize)
            ELSE lengthCode[1]
        header == Or32(Or32(mustUnderstandFlag, Shl28(finalLengthCode)), id)
        h == uint32(w, header)
    IN  CASE finalLengthCode \in 0..3 ->
                IF objectSize # lengthCodeToObjectSizes(finalLengthCode)
                THEN [h EXCEPT !.threw = TRUE] ELSE h
          [] finalLengthCode \in 4..5 -> uint32(h, objectSize)
          [] finalLengthCode = 6 ->
                IF objectSize % 4 # 0 THEN [h EXCEPT !.threw = TRUE]
                ELSE uint32(h, objectSize)
          [] finalLengthCode = 7 ->
                IF objectSize % 8 # 0 THEN [h EXCEPT !.threw = TRUE]
                ELSE uint32(h, objectSize \div 8)
          [] OTHER -> [h EXCEPT !.threw = TRUE]

memberHeaderV2(w, mustUnderstand, id, objectSize, lengthCode) ==
    IF id > 268435455 THEN [w EXCEPT !.threw = TRUE]
    ELSE
    LET mustUnderstandFlag == IF mustUnderstand THEN MinInt32 ELSE 0
        finalLengthCode ==
            IF lengthCode = NoLengthCode THEN getLengthCodeForObjectSize(objectSize)
            ELSE lengthCode[1]
        header == Or32(Or32(mustUnderstandFlag, Shl28(finalLengthCode)), id)
        h == uint32(w, header)
    IN  CASE finalLengthCode \in 0..3 ->
                IF objectSize # lengthCodeToObjectSizes(finalLengthCode)
                THEN [h EXCEPT !.threw = TRUE] ELSE h
          [] finalLengthCode \in 4..5 -> uint32(h, objectSize)
          [] finalLengthCode = 6 ->
                IF objectSize % 4 # 0 THEN [h EXCEPT !.threw = TRUE]
                ELSE uint32(h, objectSize \div 4)
          [] finalLengthCode = 7 ->
                IF objectSize % 8 # 0 THEN [h EXCEPT !.threw = TRUE]
                ELSE uint32(h, objectSize \div 8)
          [] OTHER -> [h EXCEPT !.threw = TRUE]

emHeader(w, mustUnderstand, id, objectSize, lengthCode) ==
    IF isCDR2 THEN memberHeaderV2(w, mustUnderstand, id, objectSize, lengthCode)
    ELSE memberHeaderV1(w, mustUnderstand, id, objectSize)

\* sentinelHeader writing the sentinel under XCDR2 too
sentinelHeader_always(w) == uint16(uint16(align(w, 4, 4), SENTINEL_PID), 0)

sentinelHeader(w) ==
    IF ~isCDR2 THEN uint16(uint16(align(w, 4, 4), SENTINEL_PID), 0) ELSE w

----------------------------------------------------------------------------
(* Typed arrays.  An array argument is [typed, elems]: typed says that it  *)
(* is the typed array of the operation's element type (Int16Array for      *)
(* int16Array, ...) and not a number[] / bigint[]; elems are its elements. *)

\* The bytes of a typed array's buffer: each element in the host's byte order
RECURSIVE HostBytes(_, _)
HostBytes(elems, width) ==
    IF elems = <<>> THEN <<>>
    ELSE Ordered(IntBytesBE(Head(elems), width), hostLittleEndian)
             \o HostBytes(Tail(elems), width)

RECURSIVE HostBytesFloat32(_)
HostBytesFloat32(elems) ==
    IF elems = <<>> THEN <<>>
    ELSE Ordered(Float32BytesBE(Head(elems)), hostLittleEndian)
             \o HostBytesFloat32(Tail(elems))

RECURSIVE HostBytesFloat64(_)
HostBytesFloat64(elems) ==
    IF elems = <<>> THEN <<>>
    ELSE Ordered(Float64BytesBE(Head(elems)), hostLittleEndian)
             \o HostBytesFloat64(Tail(elems))

\* value instanceof T && #littleEndian === #hostLittleEndian
\*   && value.length >= BUFFER_COPY_THRESHOLD
fastPath(value) ==
    /\ value.typed
    /\ littleEndian = hostLittleEndian
    /\ Len(value.elems) >= BUFFER_COPY_THRESHOLD

\* this.align(value.BYTES_PER_ELEMENT, value.byteLength); this.#array.set(bytes,
\* this.#offset); this.#offset += value.byteLength
copyBytes(w, width, bytes) == put(align(w, width, Len(bytes)), bytes)

\* if (writeLength === true) this.sequenceLength(value.length)
lengthPrefix(w, value, writeLength) ==
    IF writeLength THEN sequenceLength(w, Len(value.elems)) ELSE w

\* Uint8Array.prototype.set(value, offset): each element modulo 256
RECURSIVE ByteElems(_)
ByteElems(elems) ==
    IF elems = <<>> THEN <<>>
    ELSE IntBytesBE(Head(elems), 1) \o ByteElems(Tail(elems))

int8Array(w, value, writeLength) ==
    LET p == lengthPrefix(w, value, writeLength)
    IN  put(resizeIfNeeded(p, Len(value.elems)), ByteElems(value.elems))

uint8Array(w, value, writeLength) ==
    LET p == lengthPrefix(w, value, writeLength)
    IN  put(resizeIfNeeded(p, Len(value.elems)), ByteElems(value.elems))

\* for (const entry of value) this.int16(entry), and likewise for each type
int16Each(w, elems) ==
    LET f[i \in 0..Len(elems)] == IF i = 0 THEN w ELSE int16(f[i - 1], elems[i])
    IN  f[Len(elems)]

uint16Each(w, elems) ==
    LET f[i \in 0..Len(elems)] == IF i = 0 THEN w ELSE uint16(f[i - 1], elems[i])
    IN  f[Len(elems)]

int32Each(w, elems) ==
    LET f[i \in 0..Len(elems)] == IF i = 0 THEN w ELSE int32(f[i - 1], elems[i])
    IN  f[Len(elems)]

uint32Each(w, elems) ==
    LET f[i \in 0..Len(elems)] == IF i = 0 THEN w ELSE uint32(f[i - 1], elems[i])
    IN  f[Len(elems)]

int64Each(w, elems) ==
    LET f[i \in 0..Len(elems)] == IF i = 0 THEN w ELSE int64(f[i - 1], elems[i])
    IN  f[Len(elems)]

uint64Each(w, elems) ==
    LET f[i \in 0..Len(elems)] == IF i = 0 THEN w ELSE uint64(f[i - 1], elems[i])
    IN  f[Len(elems)]

float32Each(w, elems) ==
    LET f[i \in 0..Len(elems)] == IF i = 0 THEN w ELSE float32(f[i - 1], elems[i])
    IN  f[Len(elems)]

float64Each(w, elems) ==
    LET f[i \in 0..Len(elems)] == IF i = 0 THEN w ELSE float64(f[i - 1], elems[i])
    IN  f[Len(elems)]

int16Array(w, value, writeLength) ==
    LET p == lengthPrefix(w, value, writeLength)
    IN  IF fastPath(value) THEN copyBytes(p, 2, HostBytes(value.elems, 2))
        ELSE int16Each(p, value.elems)

uint16Array(w, value, writeLength) ==
    LET p == lengthPrefix(w, value, writeLength)
    IN  IF fastPath(value) THEN copyBytes(p, 2, HostBytes(value.elems, 2))
        ELSE uint16Each(p, value.elems)

int32Array(w, value, writeLength) ==
    LET p == lengthPrefix(w, value, writeLength)
    IN  IF fastPath(value) THEN copyBytes(p, 4, HostBytes(value.elems, 4))
        ELSE int32Each(p, value.elems)

uint32Array(w, value, writeLength) ==
    LET p == lengthPrefix(w, value, writeLength)
    IN  IF fastPath(value) THEN copyBytes(p, 4, HostBytes(value.elems, 4))
        ELSE uint32Each(p, value.elems)

int64Array(w, value, writeLength) ==
    LET p == lengthPrefix(w, value, writeLength)
    IN  IF fastPath(value) THEN copyBytes(p, 8, HostBytes(value.elems, 8))
        ELSE int64Each(p, value.elems)

uint64Array(w, value, writeLength) ==
    LET p == lengthPrefix(w, value, writeLength)
    IN  IF fastPath(value) THEN copyBytes(p, 8, HostBytes(value.elems, 8))
        ELSE uint64Each(p, value.elems)

float32Array(w, value, writeLength) ==
    LET p == lengthPrefix(w, value, writeLength)
    IN  IF fastPath(value) THEN copyBytes(p, 4, HostBytesFloat32(value.elems))
        ELSE float32Each(p, value.elems)

float64Array(w, value, writeLength) ==
    LET p == lengthPrefix(w, value, writeLength)
    IN  IF fastPath(value) THEN copyBytes(p, 8, HostBytesFloat64(value.elems))
        ELSE float64Each(p, value.elems)

----------------------------------------------------------------------------
(* Construction.  Options are [source, size, fill, kind]: source says      *)
(* which of options.buffer / options.size is given ("buffer", "size") or   *)
(* neither ("default"); size is the byte length given; fill is the byte a  *)
(* supplied buffer is filled with; kind is <<k>>, or <<>> when not given.  *)

\* The four view.set* calls of the constructor throw a RangeError when the
\* buffer is too short for them; what was stored before stays stored.
constructor(o) ==
    LET given ==
            CASE o.source = "buffer" -> [i \in 1..o.size |-> o.fill]
              [] o.source = "size" -> Zeros(o.size)
              [] OTHER -> Zeros(DEFAULT_CAPACITY)
        k == IF o.kind = <<>> THEN CDR_LE ELSE o.kind[1]
        r == resizeIfNeeded(
                 [buffer |-> given, offset |-> Undefined, origin |-> Undefined,
                  threw |-> FALSE], 4)
        n == Len(r.buffer)
        stored == SetBytes(r.buffer, 0, SubSeq(<<0, k, 0, 0>>, 1, IF n >= 4 THEN 4 ELSE IF n >= 2 THEN 2 ELSE n))
    IN  IF n < 4 THEN [r EXCEPT !.buffer = stored, !.threw = TRUE]
        ELSE [r EXCEPT !.buffer = stored, !.offset = 4, !.origin = 4]

KindOf(o) == IF o.kind = <<>> THEN CDR_LE ELSE o.kind[1]

Options(maxSize, kinds) ==
    [source : {"default"}, size : {DEFAULT_CAPACITY}, fill : {0}, kind : kinds]
    \cup [source : {"size"}, size : 0..maxSize, fill : {0}, kind : kinds]
    \cup [source : {"buffer"}, size : 0..maxSize, fill : {0, 170}, kind : kinds]

AllKinds == {<<>>} \cup {<<k>> : k \in EncapsulationKinds}

\* The writers whose calls are explored: one kind for each combination of
\* XCDR1 / XCDR2 and big / little endian, over a supplied buffer of
\* InitCapacity bytes that holds 0xFF bytes, or over the default buffer.
WriterKinds == {<<CDR_LE>>, <<PL_CDR_BE>>, <<CDR2_BE>>, <<PL_CDR2_LE>>}
WriterOptions ==
    [source : {"buffer"}, size : {InitCapacity}, fill : {255}, kind : WriterKinds]

----------------------------------------------------------------------------
(* Arguments tried *)

Int8Values == {-1}
Uint8Values == {255}
Int16Values == {-2}
Uint16Values == {65534}
Int32Values == {-3}
Uint32Values == {16909060}
Int64Values == {-4}
Uint64Values == {16909060}
Float32Values == {1}
Float64Values == {1}

\* 'a', U+00E9, U+20AC, U+1F600: 1, 2, 3 and 4 bytes of UTF-8
\* and strings of them: "", one of each, and a 1-byte beside a 2-byte one
Strings == {<<>>, <<97>>, <<233>>, <<8364>>, <<128512>>, <<97, 233>>, <<233, 97>>}

\* emHeader arguments: [mustUnderstand, id, objectSize, lengthCode]
\* on XCDR2: ids up to 0x0FFFFFFF with every length code (8 is none) and
\* sizes that fit and do not fit each code, and the id 0x10000000;
\* on XCDR1: ids and sizes on both sides of 0x3F00 and 0xFFFF
LengthCodes == {NoLengthCode} \cup {<<lc>> : lc \in 0..8}
EmHeaderArgs ==
    IF isCDR2
    THEN [mustUnderstand : {FALSE}, id : {18},
          objectSize : {1, 2, 4, 8, 12}, lengthCode : LengthCodes]
         \cup [mustUnderstand : {TRUE}, id : {268435455},
               objectSize : {8, 12}, lengthCode : LengthCodes]
         \cup [mustUnderstand : BOOLEAN, id : {268435456},
               objectSize : {4}, lengthCode : {NoLengthCode, <<2>>}]
    ELSE [mustUnderstand : BOOLEAN, id : {18, 16128, 16129},
          objectSize : {4, 65535, 65536}, lengthCode : {NoLengthCode}]
         \cup [mustUnderstand : {TRUE}, id : {268435456},
               objectSize : {4}, lengthCode : {NoLengthCode, <<2>>}]

\* Arrays of n elements -1, 0, 1, ... (floats: 1.0, -2.0, 1.0, ...): a one-element
\* typed array, a typed and an untyped array of BUFFER_COPY_THRESHOLD elements
IntElems(n) == [i \in 1..n |-> i - 2]
FloatElems(n) == [i \in 1..n |-> IF i % 2 = 1 THEN 1 ELSE -2]
IntArrays ==
    {[typed |-> TRUE, elems |-> IntElems(1)],
     [typed |-> TRUE, elems |-> IntElems(BUFFER_COPY_THRESHOLD)],
     [typed |-> FALSE, elems |-> IntElems(BUFFER_COPY_THRESHOLD)]}
FloatArrays ==
    {[typed |-> TRUE, elems |-> FloatElems(1)],
     [typed |-> TRUE, elems |-> FloatElems(BUFFER_COPY_THRESHOLD)],
     [typed |-> FALSE, elems |-> FloatElems(BUFFER_COPY_THRESHOLD)]}

AlignSizes == {1, 2, 4, 8}

----------------------------------------------------------------------------
(* The state machine *)

Self == [buffer |-> buffer, offset |-> offset, origin |-> origin, threw |-> FALSE]

\* get data, get size and get kind of a writer w
data(w) == SubSeq(w.buffer, 1, w.offset)
size(w) == w.offset
getKind(w) == w.buffer[2]

NoCall == [op |-> "none", args |-> <<>>, pre |-> <<>>, threw |-> FALSE]

\* The call op(args) on the current writer gives r.
Call(op, args, r) ==
    /\ phase = "ready"
    /\ last = NoCall
    /\ buffer' = r.buffer
    /\ offset' = r.offset
    /\ origin' = r.origin
    /\ last' = [op |-> op, args |-> args, pre |-> Self, threw |-> r.threw]
    /\ UNCHANGED <<kind, hostLittleEndian, phase, opts>>

\* return this (or the throw reaches the caller): the writer is the caller's
\* again.  The caller goes on only while offset <= MaxStart.
Return ==
    /\ phase = "ready"
    /\ last # NoCall
    /\ offset <= MaxStart
    /\ last' = NoCall
    /\ UNCHANGED <<buffer, offset, origin, kind, hostLittleEndian, phase, opts>>

\* new CdrWriter(opts)
Construct ==
    /\ phase = "new"
    /\ LET r == constructor(opts)
       IN  /\ buffer' = r.buffer
           /\ offset' = r.offset
           /\ origin' = r.origin
           /\ phase' = IF r.threw THEN "failed" ELSE "ready"
           /\ last' = [op |-> "constructor", args |-> opts, pre |-> Self,
                       threw |-> r.threw]
    /\ UNCHANGED <<kind, hostLittleEndian, opts>>

Call_int8 == \E v \in Int8Values : Call("int8", [value |-> v], int8(Self, v))
Call_uint8 == \E v \in Uint8Values : Call("uint8", [value |-> v], uint8(Self, v))
Call_int16 == \E v \in Int16Values : Call("int16", [value |-> v], int16(Self, v))
Call_uint16 == \E v \in Uint16Values : Call("uint16", [value |-> v], uint16(Self, v))
Call_int32 == \E v \in Int32Values : Call("int32", [value |-> v], int32(Self, v))
Call_uint32 == \E v \in Uint32Values : Call("uint32", [value |-> v], uint32(Self, v))
Call_int64 == \E v \in Int64Values : Call("int64", [value |-> v], int64(Self, v))
Call_uint64 == \E v \in Uint64Values : Call("uint64", [value |-> v], uint64(Self, v))
Call_uint16BE ==
    \E v \in Uint16Values : Call("uint16BE", [value |-> v], uint16BE(Self, v))
Call_uint32BE ==
    \E v \in Uint32Values : Call("uint32BE", [value |-> v], uint32BE(Self, v))
Call_uint64BE ==
    \E v \in Uint64Values : Call("uint64BE", [value |-> v], uint64BE(Self, v))
Call_float32 ==
    \E v \in Float32Values : Call("float32", [value |-> v], float32(Self, v))
Call_float64 ==
    \E v \in Float64Values : Call("float64", [value |-> v], float64(Self, v))

Call_string ==
    \E v \in Strings, wl \in BOOLEAN :
        Call("string", [value |-> v, writeLength |-> wl], string(Self, v, wl))

Call_dHeader ==
    \E sz \in {12} : Call("dHeader", [objectSize |-> sz], dHeader(Self, sz))

Call_sequenceLength ==
    \E n \in {3} : Call("sequenceLength", [value |-> n], sequenceLength(Self, n))

Call_emHeader ==
    \E a \in EmHeaderArgs :
        Call("emHeader", a,
             emHeader(Self, a.mustUnderstand, a.id, a.objectSize, a.lengthCode))

Call_sentinelHeader == Call("sentinelHeader", <<>>, sentinelHeader(Self))

Call_align ==
    \E sz \in AlignSizes : Call("align", [size |-> sz], align(Self, sz, sz))

Call_int8Array ==
    \E v \in IntArrays, wl \in BOOLEAN :
        Call("int8Array", [value |-> v, writeLength |-> wl], int8Array(Self, v, wl))
Call_uint8Array ==
    \E v \in IntArrays, wl \in BOOLEAN :
        Call("uint8Array", [value |-> v, writeLength |-> wl], uint8Array(Self, v, wl))
Call_int16Array ==
    \E v \in IntArrays, wl \in BOOLEAN :
        Call("int16Array", [value |-> v, writeLength |-> wl], int16Array(Self, v, wl))
Call_uint16Array ==
    \E v \in IntArrays, wl \in BOOLEAN :
        Call("uint16Array", [value |-> v, writeLength |-> wl], uint16Array(Self, v, wl))
Call_int32Array ==
    \E v \in IntArrays, wl \in BOOLEAN :
        Call("int32Array", [value |-> v, writeLength |-> wl], int32Array(Self, v, wl))
Call_uint32Array ==
    \E v \in IntArrays, wl \in BOOLEAN :
        Call("uint32Array", [value |-> v, writeLength |-> wl], uint32Array(Self, v, wl))
Call_int64Array ==
    \E v \in IntArrays, wl \in BOOLEAN :
        Call("int64Array", [value |-> v, writeLength |-> wl], int64Array(Self, v, wl))
Call_uint64Array ==
    \E v \in IntArrays, wl \in BOOLEAN :
        Call("uint64Array", [value |-> v, writeLength |-> wl], uint64Array(Self, v, wl))
Call_float32Array ==
    \E v \in FloatArrays, wl \in BOOLEAN :
        Call("float32Array", [value |-> v, writeLength |-> wl],
             float32Array(Self, v, wl))
Call_float64Array ==
    \E v \in FloatArrays, wl \in BOOLEAN :
        Call("float64Array", [value |-> v, writeLength |-> wl],
             float64Array(Self, v, wl))

\* Before construction: the options are chosen, no field is assigned yet.
InitNew ==
    /\ opts \in Options(MaxInitSize, AllKinds)
    /\ hostLittleEndian \in BOOLEAN
    /\ kind = KindOf(opts)
    /\ phase = "new"
    /\ buffer = <<>>
    /\ offset = Undefined
    /\ origin = Undefined
    /\ last = NoCall

\* A constructed writer, handed to the caller
Init ==
    /\ opts \in WriterOptions
    /\ ~constructor(opts).threw
    /\ hostLittleEndian \in BOOLEAN
    /\ kind = KindOf(opts)
    /\ phase = "ready"
    /\ buffer = constructor(opts).buffer
    /\ offset = constructor(opts).offset
    /\ origin = constructor(opts).origin
    /\ last = NoCall

Next ==
    \/ Call_int8 \/ Call_uint8 \/ Call_int16 \/ Call_uint16
    \/ Call_int32 \/ Call_uint32 \/ Call_int64 \/ Call_uint64
    \/ Call_uint16BE \/ Call_uint32BE \/ Call_uint64BE
    \/ Call_float32 \/ Call_float64
    \/ Call_string \/ Call_dHeader \/ Call_sequenceLength
    \/ Call_emHeader \/ Call_sentinelHeader \/ Call_align
    \/ Call_int8Array \/ Call_uint8Array \/ Call_int16Array \/ Call_uint16Array
    \/ Call_int32Array \/ Call_uint32Array \/ Call_int64Array \/ Call_uint64Array
    \/ Call_float32Array \/ Call_float64Array
    \/ Return

Spec == Init /\ [][Next]_vars

NextNew == Construct

SpecNew == InitNew /\ [][NextNew]_vars

----------------------------------------------------------------------------
(* What the properties below speak of: the call in `last`, the writer      *)
(* before it (last.pre) and the writer after it (the state).               *)

Called(op) == phase = "ready" /\ last.op = op

\* The bytes at JS indices from .. from + n - 1 after the call
Written(from, n) == SubSeq(buffer, from + 1, from + n)

\* The padding that aligns the writer before the call to a multiple of a,
\* counted from its origin
Pad(a) == (a - ((last.pre.offset - last.pre.origin) % a)) % a

ScalarOps ==
    {"int8", "uint8", "int16", "uint16", "uint16BE", "int32", "uint32", "uint32BE",
     "float32", "int64", "uint64", "uint64BE", "float64"}

Width(op) ==
    CASE op \in {"int8", "uint8"} -> 1
      [] op \in {"int16", "uint16", "uint16BE"} -> 2
      [] op \in {"int32", "uint32", "uint32BE", "float32"} -> 4
      [] op \in {"int64", "uint64", "uint64BE", "float64"} -> 8

\* The alignment table: the width, but 4 for the 64-bit types under XCDR2
Alignment(op) == IF Width(op) = 8 /\ isCDR2 THEN 4 ELSE Width(op)

\* The value's bytes in the order of the stream (big-endian for the BE operations)
Encoded(op, v) ==
    LET be == CASE op = "float32" -> Float32BytesBE(v)
                [] op = "float64" -> Float64BytesBE(v)
                [] OTHER -> IntBytesBE(v, Width(op))
    IN  IF op \in {"uint16BE", "uint32BE", "uint64BE"} THEN be
        ELSE Ordered(be, littleEndian)

----------------------------------------------------------------------------
(* C1 *)

\* C1: in every state of a constructed writer, whatever public write
\* operations were called, origin <= offset <= capacity, the capacity being
\* the byte length of the current buffer.
C1_CursorsWithinBuffer ==
    phase = "ready" => origin <= offset /\ offset <= Len(buffer)

\* An XCDR1 extended member header written from offset 4 into the 8-byte
\* buffer: the origin was reset, and the buffer is full to its last byte.
C1_Witness ==
    /\ Called("emHeader")
    /\ ~isCDR2
    /\ last.pre.offset = 4
    /\ origin = 16
    /\ offset = 16
    /\ Len(buffer) = 16

----------------------------------------------------------------------------
(* C2 *)

\* The scalar write in `last` emitted Pad(A) zero bytes and then the value:
\* offset advanced by padding + width and is a multiple of A from the origin.
ScalarWriteAligned ==
    \A op \in ScalarOps :
        Called(op) =>
            LET p == Pad(Alignment(op))
                at == last.pre.offset
            IN  /\ offset = at + p + Width(op)
                /\ (offset - origin) % Alignment(op) = 0
                /\ origin = last.pre.origin
                /\ Written(at, p) = Zeros(p)
                /\ Written(at + p, Width(op)) = Encoded(op, last.args.value)

\* float64 called on a writer that is one byte past the encapsulation header,
\* as uint8 on a new writer leaves it
Float64AfterUint8 ==
    Called("float64") /\ last.pre.offset = 5 /\ last.pre.origin = 4

\* C2 as stated: every scalar write pads with zeros to its alignment and then
\* writes the value; uint8 then float64 ends at offset 24 under XCDR1 and at
\* offset 16 under XCDR2.
C2_Original ==
    /\ ScalarWriteAligned
    /\ Float64AfterUint8 => offset = (IF isCDR2 THEN 16 ELSE 24)

\* C2 amended: every scalar write pads with zeros to its alignment and then
\* writes the value; uint8 then float64 ends at offset 20 under XCDR1 (4 header
\* bytes, 1 byte, 7 bytes of padding, 8 bytes) and at offset 16 under XCDR2.
C2_ScalarPaddingAndWidth ==
    /\ ScalarWriteAligned
    /\ Float64AfterUint8 => offset = (IF isCDR2 THEN 16 ELSE 20)

\* float64 after one byte on an XCDR1 writer: 7 bytes of padding
C2_Witness ==
    /\ Float64AfterUint8
    /\ ~isCDR2
    /\ offset = 20
    /\ Written(5, 7) = Zeros(7)

----------------------------------------------------------------------------
(* C3 *)

WideArrayOps ==
    {"int16Array", "uint16Array", "int32Array", "uint32Array", "int64Array",
     "uint64Array", "float32Array", "float64Array"}

\* The same elements written one by one with the scalar operation of the
\* array operation op, after the same length prefix
OneByOne(op, w, value, writeLength) ==
    LET p == lengthPrefix(w, value, writeLength)
    IN  CASE op = "int16Array" -> int16Each(p, value.elems)
          [] op = "uint16Array" -> uint16Each(p, value.elems)
          [] op = "int32Array" -> int32Each(p, value.elems)
          [] op = "uint32Array" -> uint32Each(p, value.elems)
          [] op = "int64Array" -> int64Each(p, value.elems)
          [] op = "uint64Array" -> uint64Each(p, value.elems)
          [] op = "float32Array" -> float32Each(p, value.elems)
          [] op = "float64Array" -> float64Each(p, value.elems)

\* C3: whenever a typed-array operation of element width >= 2 takes the fast
\* path (typed view, stream endian = host endian, at least
\* BUFFER_COPY_THRESHOLD elements), under XCDR1 and XCDR2 and from every
\* offset and origin, it leaves the same bytes and the same final offset as
\* writing the elements one by one with the scalar operation.
C3_FastPathEqualsOneByOne ==
    \A op \in WideArrayOps :
        (Called(op) /\ fastPath(last.args.value)) =>
            LET slow == OneByOne(op, last.pre, last.args.value, last.args.writeLength)
            IN  /\ offset = slow.offset
                /\ Written(0, offset) = SubSeq(slow.buffer, 1, slow.offset)

----------------------------------------------------------------------------
(* C4 *)

\* C4: an emHeader call that fails with an error leaves offset, origin and
\* the bytes in [0, offset) as they were before the call.
C4_FailedEmHeaderWritesNothing ==
    (Called("emHeader") /\ last.threw) =>
        /\ offset = last.pre.offset
        /\ origin = last.pre.origin
        /\ Written(0, offset) = SubSeq(last.pre.buffer, 1, last.pre.offset)

----------------------------------------------------------------------------
(* C5 *)

\* uint16 / uint32 of a value below 2^31, in the byte order of the stream
U16(v) == Ordered(IntBytesBE(v, 2), littleEndian)
U32(v) == Ordered(IntBytesBE(v, 4), littleEndian)

\* C5: string(v, writeLength = true) aligns to 4, writes the uint32
\* byteLength(utf8(v)) + 1, all UTF-8 bytes of v and one 0 byte, and advances
\* offset by padding + 4 + byteLength(utf8(v)) + 1; with writeLength = false
\* it writes only the UTF-8 bytes and the 0 byte, unaligned.
C5_StringWritesUtf8 ==
    Called("string") =>
        LET u == Utf8Str(last.args.value)
            n == Len(u)
            p == IF last.args.writeLength THEN Pad(4) ELSE 0
            at == last.pre.offset + p
            body == IF last.args.writeLength THEN at + 4 ELSE at
        IN  /\ offset = body + n + 1
            /\ Written(last.pre.offset, p) = Zeros(p)
            /\ last.args.writeLength => Written(at, 4) = U32(n + 1)
            /\ Written(body, n) = u
            /\ Written(body + n, 1) = <<0>>

----------------------------------------------------------------------------
(* C6 *)

\* C6: on an XCDR1 writer emHeader(mu, id, size) pads to a multiple of 4 from
\* the origin, then writes 4 bytes, uint16((mu ? 0x4000 : 0) | id) and
\* uint16(size), if id <= 0x3F00 and size <= 0xFFFF, and otherwise 12 bytes,
\* uint16((mu ? 0x4000 : 0) | 0x3F01), uint16(8), uint32(id), uint32(size);
\* origin equals offset when the call returns.
C6_MemberHeaderV1 ==
    (Called("emHeader") /\ ~isCDR2) =>
        LET a == last.args
            at == last.pre.offset + Pad(4)
            flag == IF a.mustUnderstand THEN 16384 ELSE 0
        IN  /\ ~last.threw
            /\ Written(last.pre.offset, Pad(4)) = Zeros(Pad(4))
            /\ IF a.id <= 16128 /\ a.objectSize <= 65535
               THEN /\ offset = at + 4
                    /\ Written(at, 4) = U16(BitOr(flag, a.id)) \o U16(a.objectSize)
               ELSE /\ offset = at + 12
                    /\ Written(at, 12) =
                           U16(BitOr(flag, 16129)) \o U16(8) \o U32(a.id)
                               \o U32(a.objectSize)
            /\ origin = offset

\* emHeader(true, 0x12, 4) at offset 4 of an XCDR1 writer leaves origin = offset = 8
C6_Witness ==
    /\ Called("emHeader")
    /\ ~isCDR2
    /\ last.args.mustUnderstand
    /\ last.args.id = 18
    /\ last.args.objectSize = 4
    /\ last.pre.offset = 4
    /\ origin = 8
    /\ offset = 8

----------------------------------------------------------------------------
(* C7 *)

\* The length code of C7: the explicit one, or 0 for size 1, 1 for 2, 2 for
\* 4, 3 for 8 and 4 for every other size
ChosenLengthCode(a) ==
    IF a.lengthCode # NoLengthCode THEN a.lengthCode[1]
    ELSE CASE a.objectSize = 1 -> 0
           [] a.objectSize = 2 -> 1
           [] a.objectSize = 4 -> 2
           [] a.objectSize = 8 -> 3
           [] OTHER -> 4

\* C7: on an XCDR2 writer a successful emHeader(mu, id, size, lc?) has
\* id <= 0x0FFFFFFF and writes the unsigned 32-bit word
\* (mu ? 0x80000000 : 0) | (LC << 28) | id; nothing more for LC 0-3; a second
\* uint32 equal to size for LC 4 and 5, to size/4 for LC 6, to size/8 for
\* LC 7; origin is left unchanged.
C7_MemberHeaderV2 ==
    (Called("emHeader") /\ isCDR2 /\ ~last.threw) =>
        LET a == last.args
            lc == ChosenLengthCode(a)
            at == last.pre.offset + Pad(4)
            word == <<(IF a.mustUnderstand THEN 128 ELSE 0) + lc * 16
                          + (a.id \div 16777216),
                      (a.id \div 65536) % 256, (a.id \div 256) % 256, a.id % 256>>
        IN  /\ a.id <= 268435455
            /\ lc \in 0..7
            /\ Written(at, 4) = Ordered(word, littleEndian)
            /\ IF lc <= 3 THEN offset = at + 4
               ELSE /\ offset = at + 8
                    /\ Written(at + 4, 4) =
                           U32(CASE lc \in {4, 5} -> a.objectSize
                                 [] lc = 6 -> a.objectSize \div 4
                                 [] lc = 7 -> a.objectSize \div 8)
            /\ lc = 6 => a.objectSize % 4 = 0
            /\ lc = 7 => a.objectSize % 8 = 0
            /\ origin = last.pre.origin

\* emHeader(true, 0x0FFFFFFF, 8, 7): the word 0xFFFFFFFF, then 1
C7_Witness ==
    /\ Called("emHeader")
    /\ isCDR2
    /\ ~last.threw
    /\ last.args.mustUnderstand
    /\ last.args.id = 268435455
    /\ last.args.lengthCode = <<7>>
    /\ last.args.objectSize = 8
    /\ Written(offset - 8, 8) = <<255, 255, 255, 255>> \o U32(1)

----------------------------------------------------------------------------
(* C8 *)

\* C8: sentinelHeader() on an XCDR1 writer pads to a multiple of 4 from the
\* origin and writes 4 bytes, uint16(0x3F02) and uint16(0), leaving origin
\* unchanged; on an XCDR2 writer it changes neither offset, origin, capacity
\* nor any byte of the buffer.
C8_SentinelHeader ==
    Called("sentinelHeader") =>
        IF ~isCDR2
        THEN /\ offset = last.pre.offset + Pad(4) + 4
             /\ Written(last.pre.offset, Pad(4)) = Zeros(Pad(4))
             /\ Written(last.pre.offset + Pad(4), 4) = U16(16130) \o U16(0)
             /\ origin = last.pre.origin
        ELSE /\ offset = last.pre.offset
             /\ origin = last.pre.origin
             /\ buffer = last.pre.buffer

\* A sentinel written after 3 bytes of padding on an XCDR1 writer
C8_Witness ==
    /\ Called("sentinelHeader")
    /\ ~isCDR2
    /\ Pad(4) = 3
    /\ offset = last.pre.offset + 7

----------------------------------------------------------------------------
(* C9 *)

\* C9: constructing a writer with any options (no buffer and no size, any
\* size >= 0, a supplied buffer of any length) and any recognized kind
\* succeeds, with offset = origin = 4, capacity >= 4 and bytes 0..3 equal to
\* 00, kind, 00, 00.
C9_ConstructorSucceeds ==
    last.op = "constructor" =>
        /\ ~last.threw
        /\ phase = "ready"
        /\ offset = 4
        /\ origin = 4
        /\ Len(buffer) >= 4
        /\ SubSeq(buffer, 1, 4) = <<0, kind, 0, 0>>

----------------------------------------------------------------------------
(* C10 *)

IsWrite == phase = "ready" /\ last.op \notin {"none", "constructor"}

\* offset + padding + bytes-to-write of the call: the offset it ends at, and
\* for align the end of the bytes it reserves
Needed ==
    IF last.op = "align"
    THEN last.pre.offset + Pad(last.args.size) + last.args.size
    ELSE offset

\* The operations that check the capacity once for all they write
SingleCheck ==
    \/ last.op \in ScalarOps \cup {"align", "dHeader", "sequenceLength", "sentinelHeader"}
    \/ last.op \in {"string", "int8Array", "uint8Array"} /\ ~last.args.writeLength
    \/ last.op \in WideArrayOps /\ ~last.args.writeLength /\ fastPath(last.args.value)

\* C10 as stated: a write that needs `needed` bytes from capacity c leaves
\* the capacity c if c >= needed and makes it exactly max(2c, needed) if
\* c < needed; the capacity never decreases.
C10_Original ==
    IsWrite =>
        LET c == Len(last.pre.buffer)
        IN  /\ c >= Needed => Len(buffer) = c
            /\ c < Needed => Len(buffer) = Max(2 * c, Needed)
            /\ Len(buffer) >= c

\* C10 amended: a write on a constructed writer that needs `needed` bytes
\* from capacity c leaves the capacity c if c >= needed; if c < needed the
\* capacity becomes at least max(2c, needed), and exactly max(2c, needed)
\* when the operation checks the capacity once for all it writes; the
\* capacity never decreases.
C10_Growth ==
    IsWrite =>
        LET c == Len(last.pre.buffer)
        IN  /\ c >= Needed => Len(buffer) = c
            /\ c < Needed => Len(buffer) >= Max(2 * c, Needed)
            /\ (c < Needed /\ SingleCheck) => Len(buffer) = Max(2 * c, Needed)
            /\ Len(buffer) >= c

\* A call that grew the buffer twice, past max(2c, needed)
C10_Witness ==
    /\ IsWrite
    /\ Len(last.pre.buffer) < Needed
    /\ Len(buffer) > Max(2 * Len(last.pre.buffer), Needed)

----------------------------------------------------------------------------
(* C11 *)

\* C11: the writer is append-only. After every operation, failed ones
\* included, offset is not below the offset before it and every byte below
\* the offset before it has the value it had, also when the operation
\* reallocated the buffer; so in every state of a constructed writer bytes
\* 0..3 are 00, kind, 00, 00, kind() is the construction kind, and data()
\* has length size() = offset.
C11_AppendOnly ==
    /\ IsWrite =>
        /\ offset >= last.pre.offset
        /\ Len(buffer) >= last.pre.offset
        /\ SubSeq(buffer, 1, last.pre.offset)
             = SubSeq(last.pre.buffer, 1, last.pre.offset)
        /\ data(Self) = data(last.pre) \o Written(last.pre.offset, offset - last.pre.offset)
    /\ phase = "ready" =>
        /\ SubSeq(buffer, 1, 4) = <<0, kind, 0, 0>>
        /\ getKind(Self) = kind
        /\ Len(data(Self)) = size(Self)
        /\ size(Self) = offset

\* A call on a writer holding data past the encapsulation header that
\* reallocated the buffer and appended to it
C11_Witness ==
    /\ IsWrite
    /\ last.pre.offset > 4
    /\ Len(buffer) > Len(last.pre.buffer)
    /\ offset > last.pre.offset
    /\ \E i \in 5..last.pre.offset : buffer[i] # 0

====
